---- MODULE Spec2Model ----
(***************************************************************************)
(* A model of the price-file pipeline of src/main.py and of its sibling    *)
(* revision src/project2/main.py: the legacy (.dat) row parser, read_dat,  *)
(* read_csv, read_files and calc_monthly_ret_and_vol.                      *)
(*                                                                         *)
(* Text is modelled as sequences of one-character strings, so that split,  *)
(* strip, lower, float() and the date parser are computed and not assumed. *)
(* Floats are modelled as exact rationals <<num, den>> (den > 0, lowest    *)
(* terms): rounding is not modelled.                                       *)
(***************************************************************************)
EXTENDS Integers, Sequences, FiniteSets, TLC

VARIABLES
    rev,            \* which revision runs: "main" (src/main.py) or "project2"
    fill_pad,       \* pandas build: does pct_change() forward-fill NaN first
    prc_col,        \* the prc_col argument (text)
    pc,             \* position of the program
    data_point,     \* the line of the legacy file being parsed
    row,            \* the fields the row parser produced for data_point
    csv_tickers,    \* read_files argument, each entry with the file behind it
    dat_files,      \* read_files argument, each entry the lines of the file
    ret,            \* value returned by read_dat / read_csv
    df,             \* the daily panel: returned by read_files, read by calc
    todo,           \* groupby keys calc_monthly_ret_and_vol has still to visit
    monthly_stats,  \* calc_monthly_ret_and_vol's list of monthly records
    origin,         \* for each monthly record, the loop variable `ticker`
    exc             \* the exception that ended the call, or "none"

vars == <<rev, fill_pad, prc_col, pc, data_point, row, csv_tickers, dat_files,
          ret, df, todo, monthly_stats, origin, exc>>

----------------------------------------------------------------------------
(* Characters and text                                                     *)

NL == "\n"
TAB == "\t"
SP == " "
SQ == "'"
DQ == "\""

UpperCase == <<"A","B","C","D","E","F","G","H","I","J","K","L","M",
               "N","O","P","Q","R","S","T","U","V","W","X","Y","Z">>
LowerCase == <<"a","b","c","d","e","f","g","h","i","j","k","l","m",
               "n","o","p","q","r","s","t","u","v","w","x","y","z">>
Digits == <<"0","1","2","3","4","5","6","7","8","9">>

IndexIn(c, alphabet) ==
    IF \E i \in 1..Len(alphabet) : alphabet[i] = c
    THEN CHOOSE i \in 1..Len(alphabet) : alphabet[i] = c
    ELSE 0

IsDigit(c) == IndexIn(c, Digits) > 0
DigitVal(c) == IndexIn(c, Digits) - 1

\* str.lower() and str.upper(), character by character
LowerChar(c) == IF IndexIn(c, UpperCase) > 0 THEN LowerCase[IndexIn(c, UpperCase)] ELSE c
UpperChar(c) == IF IndexIn(c, LowerCase) > 0 THEN UpperCase[IndexIn(c, LowerCase)] ELSE c
Lower(s) == [i \in 1..Len(s) |-> LowerChar(s[i])]
Upper(s) == [i \in 1..Len(s) |-> UpperChar(s[i])]

\* code point order of the characters tickers are made of (upper before lower)
Ord(c) ==
    IF IsDigit(c) THEN IndexIn(c, Digits)
    ELSE IF IndexIn(c, UpperCase) > 0 THEN 20 + IndexIn(c, UpperCase)
    ELSE IF IndexIn(c, LowerCase) > 0 THEN 60 + IndexIn(c, LowerCase)
    ELSE 0

RECURSIVE StrLess(_, _)
StrLess(a, b) ==
    IF Len(b) = 0 THEN FALSE
    ELSE IF Len(a) = 0 THEN TRUE
    ELSE IF Ord(a[1]) # Ord(b[1]) THEN Ord(a[1]) < Ord(b[1])
    ELSE StrLess(Tail(a), Tail(b))

\* str.split(sep) with an explicit one-character separator: empty pieces are kept
RECURSIVE Split(_, _)
Split(s, sep) ==
    IF \A i \in 1..Len(s) : s[i] # sep THEN <<s>>
    ELSE LET i == CHOOSE k \in 1..Len(s) :
                      s[k] = sep /\ \A j \in 1..(k-1) : s[j] # sep
         IN <<SubSeq(s, 1, i-1)>> \o Split(SubSeq(s, i+1, Len(s)), sep)

\* str.strip(chars): drop leading and trailing characters that are in chars
RECURSIVE LStrip(_, _)
LStrip(s, chars) ==
    IF Len(s) > 0 /\ s[1] \in chars THEN LStrip(Tail(s), chars) ELSE s
RECURSIVE RStrip(_, _)
RStrip(s, chars) ==
    IF Len(s) > 0 /\ s[Len(s)] \in chars THEN RStrip(SubSeq(s, 1, Len(s)-1), chars) ELSE s
Strip(s, chars) == RStrip(LStrip(s, chars), chars)

Whitespace == {SP, TAB, NL}

\* str.endswith and str.replace of one character by another
EndsWith(s, suffix) ==
    Len(s) >= Len(suffix) /\ SubSeq(s, Len(s) - Len(suffix) + 1, Len(s)) = suffix
ReplaceChar(s, a, b) == [i \in 1..Len(s) |-> IF s[i] = a THEN b ELSE s[i]]

\* s.replace('.', '', 1): remove the first dot
DropFirstDot(s) ==
    IF \A i \in 1..Len(s) : s[i] # "." THEN s
    ELSE LET i == CHOOSE k \in 1..Len(s) :
                      s[k] = "." /\ \A j \in 1..(k-1) : s[j] # "."
         IN SubSeq(s, 1, i-1) \o SubSeq(s, i+1, Len(s))

\* str.isdigit(): non-empty and all digits
IsDigitStr(s) == Len(s) > 0 /\ \A i \in 1..Len(s) : IsDigit(s[i])

----------------------------------------------------------------------------
(* Numbers: exact rationals                                                *)

Abs(n) == IF n < 0 THEN -n ELSE n

RECURSIVE Gcd(_, _)
Gcd(a, b) == IF b = 0 THEN a ELSE Gcd(b, a % b)

Rat(n, d) ==
    LET g == Gcd(Abs(n), Abs(d))
        s == IF d < 0 THEN -1 ELSE 1
    IN  <<(s * n) \div g, (s * d) \div g>>
RAdd(a, b) ==
    LET g == Gcd(a[2], b[2])
    IN  Rat(a[1] * (b[2] \div g) + b[1] * (a[2] \div g), (a[2] \div g) * b[2])
RNeg(a) == <<-a[1], a[2]>>
RSub(a, b) == RAdd(a, RNeg(b))
RMul(a, b) ==
    LET g1 == Gcd(Abs(a[1]), b[2])
        g2 == Gcd(Abs(b[1]), a[2])
    IN  Rat((a[1] \div g1) * (b[1] \div g2), (a[2] \div g2) * (b[2] \div g1))
RDiv(a, b) == RMul(a, IF b[1] < 0 THEN <<-b[2], -b[1]>> ELSE <<b[2], b[1]>>)
RInt(n) == <<n, 1>>

RECURSIVE Pow10(_)
Pow10(k) == IF k = 0 THEN 1 ELSE 10 * Pow10(k - 1)

RECURSIVE DigitsVal(_)
DigitsVal(s) == IF Len(s) = 0 THEN 0
                ELSE 10 * DigitsVal(SubSeq(s, 1, Len(s)-1)) + DigitVal(s[Len(s)])

\* Cells of a data frame
NaN == [nan |-> TRUE]
StrCell(s) == [str |-> s]
FloatCell(q) == [float |-> q]
TsCell(y, m, d) == [ts |-> <<y, m, d>>]
IsStr(c) == DOMAIN c = {"str"}
IsFloat(c) == DOMAIN c = {"float"}
IsTs(c) == DOMAIN c = {"ts"}
IsNaN(c) == DOMAIN c = {"nan"}

\* float(text): surrounding whitespace is ignored; digits with at most one dot
\* and at least one digit.  Anything else raises ValueError.
FloatOk(s) ==
    LET t == Strip(s, Whitespace) IN IsDigitStr(DropFirstDot(t))
FloatOfParts(ip, fp) ==
    Rat(DigitsVal(ip) * Pow10(Len(fp)) + DigitsVal(fp), Pow10(Len(fp)))
FloatOfSplit(parts) ==
    FloatOfParts(parts[1], IF Len(parts) > 1 THEN parts[2] ELSE <<>>)
FloatVal(s) == FloatOfSplit(Split(Strip(s, Whitespace), "."))

\* pd.to_datetime(text) for the two spellings the files use, MM-DD-YYYY and
\* YYYY-MM-DD, surrounding whitespace ignored.  Other text raises.
DaysIn(y, m) ==
    IF m \in {4, 6, 9, 11} THEN 30
    ELSE IF m = 2 THEN (IF y % 4 = 0 /\ (y % 100 # 0 \/ y % 400 = 0) THEN 29 ELSE 28)
    ELSE 31
ValidYmd(y, m, d) == m \in 1..12 /\ d >= 1 /\ d <= DaysIn(y, m)
YmdOfParts(p) ==
    IF Len(p) = 3 /\ \A i \in 1..3 : IsDigitStr(p[i])
    THEN IF Len(p[1]) = 2 /\ Len(p[2]) = 2 /\ Len(p[3]) = 4
         THEN <<DigitsVal(p[3]), DigitsVal(p[1]), DigitsVal(p[2])>>
         ELSE IF Len(p[1]) = 4 /\ Len(p[2]) = 2 /\ Len(p[3]) = 2
         THEN <<DigitsVal(p[1]), DigitsVal(p[2]), DigitsVal(p[3])>>
         ELSE <<0, 0, 0>>
    ELSE <<0, 0, 0>>
DateParts(s) == YmdOfParts(Split(Strip(s, Whitespace), "-"))
YmdOk(p) == ValidYmd(p[1], p[2], p[3])
DateOk(s) == YmdOk(DateParts(s))
TsOfYmd(p) == TsCell(p[1], p[2], p[3])
ToDatetime(s) == TsOfYmd(DateParts(s))

----------------------------------------------------------------------------
(* Column names                                                            *)

T_Ticker == <<"T","i","c","k","e","r">>
T_Volume == <<"V","o","l","u","m","e">>
T_Open == <<"O","p","e","n">>
T_Close == <<"C","l","o","s","e">>
T_High == <<"H","i","g","h">>
T_Low == <<"L","o","w">>
T_AdjClose == <<"A","d","j"," ","C","l","o","s","e">>
T_Date == <<"D","a","t","e">>

c_ticker == <<"t","i","c","k","e","r">>
c_date == <<"d","a","t","e">>
c_price == <<"p","r","i","c","e">>
c_adj_close == <<"a","d","j","_","c","l","o","s","e">>
c_close == <<"c","l","o","s","e">>

\* the keys of the row template, in insertion order
TemplateKeys(r) ==
    IF r = "main"
    THEN <<T_Ticker, T_Volume, T_Open, T_Close, T_High, T_Low, T_AdjClose, T_Date>>
    ELSE <<T_Ticker, T_Volume, T_Date, T_AdjClose, T_Close, T_Open, T_High>>

\* the keys whose text is converted to a float
FloatKeys == {T_Volume, T_AdjClose, T_Close, T_Open, T_High}

\* the field count a line must split into
FieldCount(r) == IF r = "main" THEN 8 ELSE 7

\* the characters stripped from each field
StripChars(r) == IF r = "main" THEN {SQ, DQ, SP} ELSE {DQ, SQ}

----------------------------------------------------------------------------
(* Data frames: [cols |-> column names, rows |-> rows of cells]            *)

Frame(cols, rows) == [cols |-> cols, rows |-> rows]
EmptyFrame == Frame(<<>>, <<>>)
HasCol(f, name) == \E i \in 1..Len(f.cols) : f.cols[i] = name
ColIndex(f, name) == CHOOSE i \in 1..Len(f.cols) : f.cols[i] = name
Cell(f, r, name) == f.rows[r][ColIndex(f, name)]

Returned(v) == [exc |-> "none", val |-> v]
Raised(e) == [exc |-> e]

\* rename_cols: normalise every column name, then rename prc_col to price
NormName(x) == ReplaceChar(ReplaceChar(Strip(Lower(x), Whitespace), "-", "_"), SP, "_")
rename_cols(f, prc) ==
    Frame([i \in 1..Len(f.cols) |->
              IF NormName(f.cols[i]) = prc THEN c_price ELSE NormName(f.cols[i])],
          f.rows)

\* df[[names]]: KeyError unless every name is a column
Project(f, names) ==
    IF \A i \in 1..Len(names) : HasCol(f, names[i])
    THEN Returned(Frame(names,
             [r \in 1..Len(f.rows) |-> [i \in 1..Len(names) |-> Cell(f, r, names[i])]]))
    ELSE Raised("KeyError")

----------------------------------------------------------------------------
(* The legacy row parser and read_dat                                      *)

None == <<>>

\* the if/elif chain on the three separators
SplitRow(r, line) ==
    IF Len(Split(line, ",")) = FieldCount(r) THEN Split(line, ",")
    ELSE IF Len(Split(line, TAB)) = FieldCount(r) THEN Split(line, TAB)
    ELSE IF Len(Split(line, SP)) = FieldCount(r) THEN Split(line, SP)
    ELSE None

\* the stripped text of each field of an accepted row (None: the line is skipped)
StripFields(r, rw) ==
    IF rw = None THEN None ELSE [i \in 1..Len(rw) |-> Strip(rw[i], StripChars(r))]
Fields(r, line) == StripFields(r, SplitRow(r, line))

\* the conversions of one accepted row: a row of cells, or the exception
InsertMain(keys, f) ==
    IF \E i \in 1..Len(keys) : keys[i] \in FloatKeys /\ ~FloatOk(f[i])
    THEN Raised("ValueError")
    ELSE IF \E i \in 1..Len(keys) : keys[i] = T_Date /\ ~DateOk(f[i])
    THEN Raised("ValueError")
    ELSE Returned([i \in 1..Len(keys) |->
             IF keys[i] \in FloatKeys THEN FloatCell(FloatVal(f[i]))
             ELSE IF keys[i] = T_Date THEN ToDatetime(f[i])
             ELSE StrCell(f[i])])

InsertProject2(keys, f) ==
    IF \E i \in 1..Len(keys) : keys[i] = T_Date /\ ~DateOk(f[i])
    THEN Raised("ValueError")
    ELSE Returned([i \in 1..Len(keys) |->
             IF keys[i] \in FloatKeys /\ IsDigitStr(DropFirstDot(f[i]))
             THEN FloatCell(FloatVal(f[i]))
             ELSE IF keys[i] = T_Date THEN ToDatetime(f[i])
             ELSE StrCell(f[i])])

Insert(r, f) ==
    IF r = "main" THEN InsertMain(TemplateKeys(r), f) ELSE InsertProject2(TemplateKeys(r), f)

\* one result followed by the results of the rest: the first exception wins
Chain(one, rest) ==
    IF one.exc # "none" THEN one
    ELSE IF rest.exc # "none" THEN rest
    ELSE Returned(<<one.val>> \o rest.val)
\* a line that did not split is skipped
RowStep(r, f, rest) == IF f = None THEN rest ELSE Chain(Insert(r, f), rest)

\* the loop over the lines: rtn_data, or the exception a conversion raised
RECURSIVE RtnData(_, _)
RtnData(r, lines) ==
    IF Len(lines) = 0 THEN Returned(<<>>)
    ELSE RowStep(r, Fields(r, lines[1]), RtnData(r, Tail(lines)))

\* src/main.py skips the first line of the file (the header)
DataLines(r, lines) ==
    IF r = "main" THEN (IF Len(lines) = 0 THEN lines ELSE Tail(lines)) ELSE lines

\* pd.DataFrame(rtn_data): no columns at all when rtn_data is empty
FrameOf(r, data) == IF Len(data) = 0 THEN EmptyFrame ELSE Frame(TemplateKeys(r), data)

\* the end of read_dat: src/main.py projects to the three columns, the other
\* revision returns every column
DatResult(r, data, prc) ==
    IF data.exc # "none" THEN data
    ELSE IF r = "main"
         THEN Project(rename_cols(FrameOf(r, data.val), prc), <<c_ticker, c_date, c_price>>)
         ELSE Returned(rename_cols(FrameOf(r, data.val), prc))
read_dat(r, lines, prc) == DatResult(r, RtnData(r, DataLines(r, lines)), prc)

----------------------------------------------------------------------------
(* read_csv and read_files                                                 *)

\* df["ticker"] = ticker: overwrite the column, or add it as the last one
SetTicker(f, ticker) ==
    IF HasCol(f, c_ticker)
    THEN Frame(f.cols, [r \in 1..Len(f.rows) |->
             [i \in 1..Len(f.cols) |->
                 IF f.cols[i] = c_ticker THEN StrCell(ticker) ELSE f.rows[r][i]]])
    ELSE Frame(Append(f.cols, c_ticker),
               [r \in 1..Len(f.rows) |-> Append(f.rows[r], StrCell(ticker))])

\* pd.to_datetime over a column: a Timestamp passes, text is parsed
CellDateOk(c) == IsTs(c) \/ (IsStr(c) /\ DateOk(c.str))
CellToDatetime(c) == IF IsTs(c) THEN c ELSE ToDatetime(c.str)

\* `table` is what pd.read_csv(pth) loaded.  return_df is taken BEFORE the date
\* column of df is converted, so it keeps the text of the file.
CsvResult(f, return_df) ==
    IF return_df.exc # "none" THEN return_df
    ELSE IF \E r \in 1..Len(f.rows) : ~CellDateOk(Cell(f, r, c_date))
    THEN Raised("ValueError")
    ELSE return_df
CsvProject(f) == CsvResult(f, Project(f, <<c_ticker, c_date, c_price>>))
read_csv(table, ticker, prc) == CsvProject(SetTicker(rename_cols(table, prc), ticker))

\* pd.concat: the union of the columns in order of first appearance; a frame
\* without a column gets NaN there
AddCols(before, cols) ==
    before \o SelectSeq(cols, LAMBDA c : \A i \in 1..Len(before) : before[i] # c)
RECURSIVE UnionCols(_)
UnionCols(frames) ==
    IF Len(frames) = 0 THEN <<>>
    ELSE AddCols(UnionCols(SubSeq(frames, 1, Len(frames) - 1)), frames[Len(frames)].cols)
Widen(f, cols) ==
    [r \in 1..Len(f.rows) |->
        [i \in 1..Len(cols) |-> IF HasCol(f, cols[i]) THEN Cell(f, r, cols[i]) ELSE NaN]]
RECURSIVE ConcatRows(_, _)
ConcatRows(frames, cols) ==
    IF Len(frames) = 0 THEN <<>>
    ELSE Widen(frames[1], cols) \o ConcatRows(Tail(frames), cols)
ConcatOn(frames, cols) == Frame(cols, ConcatRows(frames, cols))
Concat(frames) == ConcatOn(frames, UnionCols(frames))

\* DataFrame.drop_duplicates(subset, keep='first')
KeyOf(f, r, subset) == [i \in 1..Len(subset) |-> Cell(f, r, subset[i])]
KeepFirst(f, subset) ==
    LET keep == {r \in 1..Len(f.rows) :
                    \A q \in 1..(r-1) : KeyOf(f, q, subset) # KeyOf(f, r, subset)}
        F[r \in 0..Len(f.rows)] ==
            IF r = 0 THEN <<>>
            ELSE IF r \in keep THEN Append(F[r-1], f.rows[r]) ELSE F[r-1]
    IN  Frame(f.cols, F[Len(f.rows)])
DropDuplicates(r, f, prc) ==
    IF r = "main" THEN Returned(KeepFirst(f, f.cols))
    ELSE IF HasCol(f, c_ticker) /\ HasCol(f, prc)
         THEN Returned(KeepFirst(f, <<c_ticker, prc>>))
         ELSE Raised("KeyError")

\* the ticker a csv_tickers entry names
c_prc_csv == <<"_","p","r","c",".","c","s","v">>
CsvTicker(name) ==
    Lower(IF EndsWith(name, c_prc_csv) THEN Split(name, "_")[1] ELSE name)

\* df_list: the frames read, in order, or the first exception
RECURSIVE CsvFrames(_, _)
CsvFrames(csvs, prc) ==
    IF Len(csvs) = 0 THEN Returned(<<>>)
    ELSE Chain(read_csv(csvs[1].file, CsvTicker(csvs[1].name), prc),
               CsvFrames(Tail(csvs), prc))
RECURSIVE DatFrames(_, _, _)
DatFrames(r, dats, prc) ==
    IF Len(dats) = 0 THEN Returned(<<>>)
    ELSE Chain(read_dat(r, dats[1], prc), DatFrames(r, Tail(dats), prc))

\* pd.concat(df_list) raises ValueError on an empty list
ConcatAndDrop(r, df_list, prc) ==
    IF Len(df_list) = 0 THEN Raised("ValueError")
    ELSE DropDuplicates(r, Concat(df_list), prc)
\* a: the frames of the CSV loop, b: the frames of the legacy loop
Merge(r, a, b, prc) ==
    IF a.exc # "none" THEN a
    ELSE IF b.exc # "none" THEN b
    ELSE ConcatAndDrop(r, a.val \o b.val, prc)
read_files(r, csvs, dats, prc) ==
    Merge(r, CsvFrames(csvs, prc), DatFrames(r, dats, prc), prc)

----------------------------------------------------------------------------
(* calc_monthly_ret_and_vol                                                *)

\* months are counted from year 0; a day key orders the dates
MonthKey(ymd) == ymd[1] * 12 + (ymd[2] - 1)
DayKey(ymd) == (ymd[1] * 12 + (ymd[2] - 1)) * 31 + (ymd[3] - 1)

\* strftime("%Y-%m") of the month end that closes month k
TwoDigits(n) == <<Digits[(n \div 10) + 1], Digits[(n % 10) + 1]>>
Strftime(k) ==
    LET y == k \div 12
        m == (k % 12) + 1
    IN  TwoDigits(y \div 100) \o TwoDigits(y % 100) \o <<"-">> \o TwoDigits(m)

\* df.groupby("ticker"): the keys in sorted order, each group in row order
TickerOf(f, r) == Cell(f, r, c_ticker).str
GroupKeys(f) == {TickerOf(f, r) : r \in 1..Len(f.rows)}
RECURSIVE SortKeys(_)
SortKeys(S) ==
    IF S = {} THEN <<>>
    ELSE LET m == CHOOSE x \in S : \A y \in S \ {x} : StrLess(x, y)
         IN  <<m>> \o SortKeys(S \ {m})

\* A series is a sequence of [at |-> index label, val |-> cell].
\* ticker_df['price']: the prices of one ticker, indexed by date, in the row
\* order of df
PriceSeries(f, idx) ==
    [i \in 1..Len(idx) |->
        [at |-> CellToDatetime(Cell(f, idx[i], c_date)).ts, val |-> Cell(f, idx[i], c_price)]]
GroupRows(f, g) ==
    PriceSeries(f, SelectSeq([r \in 1..Len(f.rows) |-> r], LAMBDA r : TickerOf(f, r) = g))

\* resample() sorts by the date index first, and the sort is stable
RECURSIVE StableSortByDate(_)
StableSortByDate(sr) ==
    IF Len(sr) = 0 THEN <<>>
    ELSE LET i == CHOOSE k \in 1..Len(sr) :
                      /\ \A j \in 1..Len(sr) : DayKey(sr[k].at) <= DayKey(sr[j].at)
                      /\ \A j \in 1..(k-1) : DayKey(sr[j].at) # DayKey(sr[k].at)
         IN  <<sr[i]>> \o StableSortByDate(SubSeq(sr, 1, i-1) \o SubSeq(sr, i+1, Len(sr)))

MinMonth(sr) == CHOOSE k \in {MonthKey(sr[i].at) : i \in 1..Len(sr)} :
                    \A i \in 1..Len(sr) : k <= MonthKey(sr[i].at)
MaxMonth(sr) == CHOOSE k \in {MonthKey(sr[i].at) : i \in 1..Len(sr)} :
                    \A i \in 1..Len(sr) : k >= MonthKey(sr[i].at)
\* the bins of resample('ME'): every month from the first to the last
Bins(sr) == IF Len(sr) = 0 THEN <<>>
            ELSE [i \in 1..(MaxMonth(sr) - MinMonth(sr) + 1) |-> MinMonth(sr) + i - 1]
InBin(sr, k) == SelectSeq(StableSortByDate(sr), LAMBDA o : MonthKey(o.at) = k)

\* .resample('ME').last(): NaN for a month without a row
LastOf(members) == IF Len(members) = 0 THEN NaN ELSE members[Len(members)].val
ResampleLast(sr) == [i \in 1..Len(Bins(sr)) |-> LastOf(InBin(sr, Bins(sr)[i]))]

\* Series.pct_change(): with pad, NaN takes the last value seen before the ratio
FFill(cells) ==
    LET F[i \in 0..Len(cells)] ==
            IF i = 0 THEN <<>>
            ELSE Append(F[i-1],
                     IF IsNaN(cells[i]) /\ i > 1 THEN F[i-1][i-1] ELSE cells[i])
    IN  F[Len(cells)]
Ratio(c) ==
    [i \in 1..Len(c) |->
        IF i = 1 \/ IsNaN(c[i]) \/ IsNaN(c[i-1]) THEN NaN
        ELSE FloatCell(RSub(RDiv(c[i].float, c[i-1].float), RInt(1)))]
\* a pct_change whose first value is a change of zero, not NaN
PctChangeKeepFirst(cells, pad) ==
    [i \in 1..Len(cells) |->
        IF i = 1 THEN FloatCell(RInt(0))
        ELSE Ratio(IF pad THEN FFill(cells) ELSE cells)[i]]
PctChange(cells, pad) == Ratio(IF pad THEN FFill(cells) ELSE cells)

\* .dropna(): the labels and values that are not NaN
DropNa(index, cells) ==
    LET idx == SelectSeq([i \in 1..Len(cells) |-> i], LAMBDA i : ~IsNaN(cells[i]))
    IN  [j \in 1..Len(idx) |-> [at |-> index[idx[j]], val |-> cells[idx[j]]]]

\* monthly_prices.pct_change().dropna(), labelled by month
MonthlyReturns(sr, pad) == DropNa(Bins(sr), PctChange(ResampleLast(sr), pad))

\* ticker_df['price'].pct_change().dropna(): taken in the ROW order of the group,
\* each return labelled by the date of its row
DailyReturns(sr, pad) ==
    DropNa([i \in 1..Len(sr) |-> sr[i].at], PctChange([i \in 1..Len(sr) |-> sr[i].val], pad))

\* the square root of a rational, kept symbolic
SqrtOf(q) == [sqrt |-> q]
IsSqrt(c) == DOMAIN c = {"sqrt"}

RECURSIVE RSum(_)
RSum(xs) == IF Len(xs) = 0 THEN RInt(0) ELSE RAdd(xs[1], RSum(Tail(xs)))
SumSqDev(xs, mean) ==
    RSum([i \in 1..Len(xs) |-> RMul(RSub(xs[i], mean), RSub(xs[i], mean))])
\* the variance with N - ddof in the denominator
Variance(xs, ddof) ==
    RDiv(SumSqDev(xs, RDiv(RSum(xs), RInt(Len(xs)))), RInt(Len(xs) - ddof))
\* a population standard deviation: a single value gives 0.0
StdPopulation(xs) ==
    IF Len(xs) < 1 THEN NaN ELSE SqrtOf(Variance(xs, 0))
\* Series.std(), ddof = 1: NaN below two values
Std(xs) ==
    IF Len(xs) < 2 THEN NaN ELSE SqrtOf(Variance(xs, 1))
\* std * np.sqrt(21)
TimesSqrt21(c) == IF IsNaN(c) THEN NaN ELSE SqrtOf(RMul(c.sqrt, RInt(21)))

\* daily_returns.resample('ME').std() * np.sqrt(21): its index, and its value
\* at one month
VolMonths(dr) == {Bins(dr)[i] : i \in 1..Len(Bins(dr))}
ValuesOf(members) == [i \in 1..Len(members) |-> members[i].val.float]
MonthlyVolatility(dr, k) == TimesSqrt21(Std(ValuesOf(InBin(dr, k))))

\* the loop over monthly_returns.index: the records of one ticker, or the
\* KeyError of monthly_volatility.loc[date]
StatsOf(g, mr, dr) ==
    IF \E j \in 1..Len(mr) : mr[j].at \notin VolMonths(dr)
    THEN Raised("KeyError")
    ELSE Returned([j \in 1..Len(mr) |->
             [mdate |-> Strftime(mr[j].at),
              ticker |-> Upper(g),
              mret |-> mr[j].val,
              mvol |-> MonthlyVolatility(dr, mr[j].at)]])
\* the body of the loop over the groups
GroupStats(g, sr, pad) == StatsOf(g, MonthlyReturns(sr, pad), DailyReturns(sr, pad))

\* calc_monthly_ret_and_vol as a function of the panel: the records of every
\* group in the order of the keys, or the first exception
AppendStats(one, rest) ==
    IF one.exc # "none" THEN one
    ELSE IF rest.exc # "none" THEN rest
    ELSE Returned(one.val \o rest.val)
RECURSIVE StatsOver(_, _, _)
StatsOver(f, keys, pad) ==
    IF Len(keys) = 0 THEN Returned(<<>>)
    ELSE AppendStats(GroupStats(keys[1], GroupRows(f, keys[1]), pad),
                     StatsOver(f, Tail(keys), pad))
calc_monthly_ret_and_vol(f, pad) ==
    IF \A r \in 1..Len(f.rows) : CellDateOk(Cell(f, r, c_date))
    THEN StatsOver(f, SortKeys(GroupKeys(f)), pad)
    ELSE Raised("ValueError")

----------------------------------------------------------------------------
(* Inputs                                                                  *)

MaxLines == 2       \* data lines in a legacy file
MaxCsvRows == 2     \* rows in a CSV file
MaxSources == 2     \* sources (CSV plus legacy) in one call of read_files
MaxRows == 4        \* rows in a panel handed to calc_monthly_ret_and_vol

RECURSIVE Join(_, _)
Join(parts, sep) ==
    IF Len(parts) = 0 THEN <<>>
    ELSE IF Len(parts) = 1 THEN parts[1]
    ELSE parts[1] \o <<sep>> \o Join(Tail(parts), sep)

SeqsUpTo(S, lo, hi) == UNION {[1..n -> S] : n \in lo..hi}

w_AAA == <<"A","A","A">>
w_aaa == <<"a","a","a">>
w_Jan31 == <<"0","1","-","3","1","-","2","0","2","0">>
w_Feb28 == <<"0","2","-","2","8","-","2","0","2","0">>
w_101 == <<"1","0","1">>
w_111 == <<"1","1","1">>
w_100 == <<"1","0","0">>
w_110 == <<"1","1","0">>
w_10 == <<"1","0">>
w_99 == <<"9","9">>
w_98 == <<"9","8">>
w_102 == <<"1","0","2">>
w_1p5 == <<"1",".","5">>
w_abc == <<"a","b","c">>
w_iso_Jan31 == <<"2","0","2","0","-","0","1","-","3","1">>
w_iso_Feb28 == <<"2","0","2","0","-","0","2","-","2","8">>

\* the fields of a line of the headerless 7-column layout and of the 8-column one
Fields7(t, d, p) == <<t, w_10, d, p, w_100, w_99, w_102>>
Fields8(t, d, p) == <<t, w_10, w_99, w_100, w_102, w_98, p, d>>
Header8 == Join(<<T_Ticker, T_Volume, T_Open, T_Close, T_High, T_Low, T_AdjClose, T_Date>>,
                ",") \o <<NL>>

\* -- lines for the row parser: a well-formed row with one field replaced
OddFields == {<<>>, <<SQ>> \o w_AAA \o <<SQ>>, <<SP>> \o w_10, <<DQ>> \o w_10 \o <<DQ, SP>>,
              <<"a", SP, "b">>, <<"x", ",", "y">>, <<TAB>> \o w_10}
BaseFields == {Fields7(w_AAA, w_Jan31, w_101), Fields8(w_AAA, w_Jan31, w_101)}
RowLines ==
    {Join(f, sep) \o term :
        f \in BaseFields \cup
              {[b EXCEPT ![i] = o] : b \in BaseFields, i \in {1, 2, 4, 7}, o \in OddFields},
        sep \in {",", TAB, SP},
        term \in {<<NL>>, <<>>}}

\* -- legacy files for read_dat alone: good lines and lines with a bad field
IngestLines(r) ==
    LET mk(t, d, p) == Join(IF r = "main" THEN Fields8(t, d, p) ELSE Fields7(t, d, p), ",")
                       \o <<NL>>
    IN  {mk(w_AAA, w_Jan31, w_101), mk(w_aaa, w_Feb28, w_1p5),
         mk(w_AAA, w_Feb28, w_abc), mk(w_AAA, w_abc, w_111),
         Join(<<w_AAA, w_10>>, ",") \o <<NL>>}
IngestFiles(r) ==
    {(IF r = "main" THEN <<Header8>> ELSE <<>>) \o body :
        body \in SeqsUpTo(IngestLines(r), 0, MaxLines)}

\* -- CSV files as pd.read_csv loads them: text dates, float prices
CsvHeaders == {<<T_Date, T_AdjClose>>,
               <<<<SP,"D","a","t","e">>, <<"A","d","j","-","C","l","o","s","e",SP>>, T_Volume>>,
               <<T_Date, T_Close>>}
CsvRowsFor(h, d, p) ==
    IF Len(h) = 2 THEN <<StrCell(d), FloatCell(RInt(p))>>
    ELSE <<StrCell(d), FloatCell(RInt(p)), FloatCell(RInt(10))>>
CsvObs == {<<w_iso_Jan31, 100>>, <<w_iso_Feb28, 110>>}
CsvTables(hs, obs) ==
    {Frame(h, [i \in 1..Len(body) |-> CsvRowsFor(h, body[i][1], body[i][2])]) :
        h \in hs, body \in SeqsUpTo(obs, 1, MaxCsvRows)}
CsvNames == {w_aaa, w_AAA \o c_prc_csv}

\* -- sources for read_files
PipeDatLines(layout) ==
    {Join(IF layout = 8 THEN Fields8(t, o[1], o[2]) ELSE Fields7(t, o[1], o[2]), ",")
        \o <<NL>> :
        t \in {w_aaa, w_AAA}, o \in {<<w_Jan31, w_101>>, <<w_Feb28, w_111>>}}
PipeDatFiles ==
    {<<Header8>> \o body : body \in SeqsUpTo(PipeDatLines(8), 1, MaxLines)}
    \cup SeqsUpTo(PipeDatLines(7), 1, MaxLines)
PipeCsvEntries ==
    {[name |-> n, file |-> t] :
        n \in CsvNames, t \in CsvTables({<<T_Date, T_AdjClose>>}, CsvObs)}

\* -- panels for calc_monthly_ret_and_vol
PanelRow(t, y, m, d, p) == <<StrCell(t), TsCell(y, m, d), FloatCell(RInt(p))>>
PanelRows ==
    {PanelRow(w_aaa, 2019, 12, 31, 1), PanelRow(w_aaa, 2020, 1, 30, 2),
     PanelRow(w_aaa, 2020, 1, 31, 1), PanelRow(w_aaa, 2020, 1, 31, 2),
     PanelRow(w_aaa, 2020, 2, 28, 2),
     PanelRow(w_AAA, 2019, 12, 31, 2), PanelRow(w_AAA, 2020, 1, 31, 1)}
Panels == {Frame(<<c_ticker, c_date, c_price>>, rows) :
              rows \in SeqsUpTo(PanelRows, 1, MaxRows)}

\* the builds a revision runs on: resample('M') is gone from the pandas whose
\* pct_change() no longer pads
Builds == {<<"main", TRUE>>, <<"main", FALSE>>, <<"project2", TRUE>>}

----------------------------------------------------------------------------
(* The state machine                                                       *)

\* one line handed to the row parser
InitRow ==
    /\ rev \in {"main", "project2"}
    /\ fill_pad = TRUE
    /\ prc_col = c_adj_close
    /\ pc = "line"
    /\ data_point \in RowLines
    /\ row = None
    /\ csv_tickers = <<>> /\ dat_files = <<>> /\ ret = Raised("unset")
    /\ df = EmptyFrame /\ todo = <<>> /\ monthly_stats = <<>> /\ origin = <<>>
    /\ exc = "none"

\* one file handed to read_dat or to read_csv
InitIngest ==
    /\ rev \in {"main", "project2"}
    /\ fill_pad = TRUE
    /\ prc_col \in {c_adj_close, c_close}
    /\ \/ /\ pc = "read_dat"
          /\ dat_files \in {<<f>> : f \in IngestFiles(rev)}
          /\ csv_tickers = <<>>
       \/ /\ pc = "read_csv"
          /\ csv_tickers \in {<<[name |-> n, file |-> t]>> :
                                 n \in CsvNames, t \in CsvTables(CsvHeaders, CsvObs)}
          /\ dat_files = <<>>
    /\ data_point = <<>> /\ row = None /\ ret = Raised("unset")
    /\ df = EmptyFrame /\ todo = <<>> /\ monthly_stats = <<>> /\ origin = <<>>
    /\ exc = "none"

\* a call of read_files followed by calc_monthly_ret_and_vol.  Two entries of
\* csv_tickers that name the same ticker name the same file.
Init ==
    /\ \E b \in Builds : rev = b[1] /\ fill_pad = b[2]
    /\ prc_col = c_adj_close
    /\ pc = "read_files"
    /\ csv_tickers \in SeqsUpTo(PipeCsvEntries, 0, MaxSources)
    /\ dat_files \in SeqsUpTo(PipeDatFiles, 0, MaxSources - Len(csv_tickers))
    /\ \A i, j \in 1..Len(csv_tickers) :
           CsvTicker(csv_tickers[i].name) = CsvTicker(csv_tickers[j].name)
               => csv_tickers[i].file = csv_tickers[j].file
    /\ data_point = <<>> /\ row = None /\ ret = Raised("unset")
    /\ df = EmptyFrame /\ todo = <<>> /\ monthly_stats = <<>> /\ origin = <<>>
    /\ exc = "none"

\* a panel handed to calc_monthly_ret_and_vol (the function is the same in the
\* two revisions but for the spelling of the month-end alias)
InitAgg ==
    /\ rev = "main"
    /\ fill_pad \in BOOLEAN
    /\ prc_col = c_adj_close
    /\ pc = "calc"
    /\ df \in Panels
    /\ data_point = <<>> /\ row = None /\ csv_tickers = <<>> /\ dat_files = <<>>
    /\ ret = Raised("unset") /\ todo = <<>> /\ monthly_stats = <<>> /\ origin = <<>>
    /\ exc = "none"

\* the body of the loop of read_dat on one line, up to the stripped fields
ParseLine ==
    /\ pc = "line"
    /\ row' = Fields(rev, data_point)
    /\ pc' = "parsed"
    /\ UNCHANGED <<rev, fill_pad, prc_col, data_point, csv_tickers, dat_files, ret, df,
                   todo, monthly_stats, origin, exc>>

ReadDat ==
    /\ pc = "read_dat"
    /\ ret' = read_dat(rev, dat_files[1], prc_col)
    /\ exc' = ret'.exc
    /\ pc' = "dat_returned"
    /\ UNCHANGED <<rev, fill_pad, prc_col, data_point, row, csv_tickers, dat_files, df,
                   todo, monthly_stats, origin>>

ReadCsv ==
    /\ pc = "read_csv"
    /\ ret' = read_csv(csv_tickers[1].file, CsvTicker(csv_tickers[1].name), prc_col)
    /\ exc' = ret'.exc
    /\ pc' = "csv_returned"
    /\ UNCHANGED <<rev, fill_pad, prc_col, data_point, row, csv_tickers, dat_files, df,
                   todo, monthly_stats, origin>>

ReadFiles ==
    /\ pc = "read_files"
    /\ ret' = read_files(rev, csv_tickers, dat_files, prc_col)
    /\ exc' = ret'.exc
    /\ df' = IF ret'.exc = "none" THEN ret'.val ELSE df
    /\ pc' = IF ret'.exc = "none" THEN "calc" ELSE "raised"
    /\ UNCHANGED <<rev, fill_pad, prc_col, data_point, row, csv_tickers, dat_files,
                   todo, monthly_stats, origin>>

\* df['date'] = pd.to_datetime(df['date']); set_index; monthly_stats = []
CalcBegin ==
    /\ pc = "calc"
    /\ IF \A r \in 1..Len(df.rows) : CellDateOk(Cell(df, r, c_date))
       THEN /\ todo' = SortKeys(GroupKeys(df))
            /\ pc' = "loop"
            /\ exc' = "none"
       ELSE /\ todo' = todo
            /\ pc' = "raised"
            /\ exc' = "ValueError"
    /\ monthly_stats' = <<>>
    /\ origin' = <<>>
    /\ UNCHANGED <<rev, fill_pad, prc_col, data_point, row, csv_tickers, dat_files, ret, df>>

\* one iteration of `for ticker, ticker_df in df.groupby("ticker")`
Iteration(g, r) ==
    IF r.exc = "none"
    THEN /\ monthly_stats' = monthly_stats \o r.val
         /\ origin' = origin \o [i \in 1..Len(r.val) |-> g]
         /\ todo' = Tail(todo)
         /\ pc' = "loop"
         /\ exc' = "none"
    ELSE /\ monthly_stats' = monthly_stats
         /\ origin' = origin
         /\ todo' = todo
         /\ pc' = "raised"
         /\ exc' = r.exc
CalcGroup ==
    /\ pc = "loop"
    /\ todo # <<>>
    /\ Iteration(Head(todo), GroupStats(Head(todo), GroupRows(df, Head(todo)), fill_pad))
    /\ UNCHANGED <<rev, fill_pad, prc_col, data_point, row, csv_tickers, dat_files, ret, df>>

\* return pd.DataFrame(monthly_stats)
CalcReturn ==
    /\ pc = "loop"
    /\ todo = <<>>
    /\ pc' = "done"
    /\ UNCHANGED <<rev, fill_pad, prc_col, data_point, row, csv_tickers, dat_files, ret, df,
                   todo, monthly_stats, origin, exc>>

NextRow == ParseLine
NextIngest == ReadDat \/ ReadCsv
NextAgg == CalcBegin \/ CalcGroup \/ CalcReturn
Next == ReadFiles \/ CalcBegin \/ CalcGroup \/ CalcReturn

SpecRow == InitRow /\ [][NextRow]_vars
SpecIngest == InitIngest /\ [][NextIngest]_vars
SpecAgg == InitAgg /\ [][NextAgg]_vars
Spec == Init /\ [][Next]_vars

----------------------------------------------------------------------------
(* Properties                                                              *)

ReadFilesReturned == pc = "calc"

\* the (ticker, date, price) observations a frame holds, dates as calendar dates
ObsOf(f) ==
    {<<Cell(f, r, c_ticker), CellToDatetime(Cell(f, r, c_date)), Cell(f, r, c_price)>> :
        r \in 1..Len(f.rows)}
CsvOrigin ==
    UNION {ObsOf(read_csv(csv_tickers[i].file, CsvTicker(csv_tickers[i].name), prc_col).val) :
              i \in 1..Len(csv_tickers)}
LegacyOrigin ==
    UNION {ObsOf(read_dat(rev, dat_files[i], prc_col).val) : i \in 1..Len(dat_files)}
Overlap(c, d) == c[1] = d[1] /\ c[2] = d[2] /\ c[3] # d[3]

\* C1: when a CSV source and a legacy source hold the same ticker and date with
\* different prices, the panel read_files returns holds the CSV price for them
\* and not the legacy price.
C1_MergePriority ==
    ReadFilesReturned =>
        \A c \in CsvOrigin, d \in LegacyOrigin :
            Overlap(c, d) => (c \in ObsOf(df) /\ d \notin ObsOf(df))

\* C2: the panel read_files returns holds at most one record for each
\* (ticker, date).
C2_OnePricePerTickerDate ==
    ReadFilesReturned =>
        \A i, j \in 1..Len(df.rows) :
            (/\ Cell(df, i, c_ticker) = Cell(df, j, c_ticker)
             /\ CellToDatetime(Cell(df, i, c_date)) = CellToDatetime(Cell(df, j, c_date)))
                => i = j

\* the legacy file of the scenario: two headerless 7-field comma lines for one
\* ticker, adj_close 101 at the end of January and 111 at the end of February
ScenarioFile(t) ==
    <<Join(Fields7(t, w_Jan31, w_101), ",") \o <<NL>>,
      Join(Fields7(t, w_Feb28, w_111), ",") \o <<NL>>>>
Scenario(t) == csv_tickers = <<>> /\ dat_files = <<ScenarioFile(t)>> /\ prc_col = c_adj_close
ScenarioRecord(t) ==
    [mdate |-> <<"2","0","2","0","-","0","2">>,
     ticker |-> Upper(t),
     mret |-> FloatCell(RSub(RDiv(FloatVal(w_111), FloatVal(w_101)), RInt(1))),
     mvol |-> NaN]
Finished == pc \in {"done", "raised"}

\* C3: the two-line legacy scenario runs through read_files and
\* calc_monthly_ret_and_vol without error, ingests two daily records and yields
\* the single monthly record {2020-02, T upper-cased, 111/101 - 1, missing}.
C3_LegacyEndToEnd ==
    \A t \in {w_aaa, w_AAA} :
        (Scenario(t) /\ Finished) =>
            /\ pc = "done"
            /\ Len(df.rows) = 2
            /\ monthly_stats = <<ScenarioRecord(t)>>

\* the reference row parser of the specification
RefSeparators == <<",", TAB, SP>>
RefAccepts(line, n, sep) ==
    Len(Split(line, sep)) = n /\ \A i \in 1..n : Len(Split(line, sep)[i]) > 0
RefTrim(tokens) == [i \in 1..Len(tokens) |-> Strip(tokens[i], {SQ, DQ} \cup Whitespace)]
parse_legacy_line(line, n) ==
    IF \E k \in 1..3 : RefAccepts(line, n, RefSeparators[k])
    THEN RefTrim(Split(line, RefSeparators[
             CHOOSE k \in 1..3 : /\ RefAccepts(line, n, RefSeparators[k])
                                 /\ \A j \in 1..(k-1) : ~RefAccepts(line, n, RefSeparators[j])]))
    ELSE None

\* C4: the fields read_dat takes from a line are those of parse_legacy_line:
\* the first of comma, tab, space that splits the line into exactly n non-empty
\* tokens, each token stripped of quotes and whitespace; no record otherwise.
C4_RowParserIsReference ==
    pc = "parsed" => row = parse_legacy_line(data_point, FieldCount(rev))

\* the field of an accepted line that sits under a column
FieldUnder(r, f, col) ==
    f[CHOOSE i \in 1..Len(TemplateKeys(r)) : NormName(TemplateKeys(r)[i]) = col]
Unparseable(r, line, prc) ==
    /\ Fields(r, line) # None
    /\ \/ ~FloatOk(FieldUnder(r, Fields(r, line), prc))
       \/ ~DateOk(FieldUnder(r, Fields(r, line), c_date))
WellFormed(r, line) ==
    /\ Fields(r, line) # None
    /\ Insert(r, Fields(r, line)).exc = "none"
    /\ \A i \in 1..FieldCount(r) :
           TemplateKeys(r)[i] \in FloatKeys => FloatOk(Fields(r, line)[i])
WithoutUnparseable(r, lines, prc) ==
    SubSeq(lines, 1, Len(lines) - Len(DataLines(r, lines)))
        \o SelectSeq(DataLines(r, lines), LAMBDA l : ~Unparseable(r, l, prc))

\* C5: a line whose price field is not a number, or whose date does not parse,
\* does not make read_dat raise; its record is left out and the well-formed
\* lines of the file still yield theirs.
C5_UnparseableFieldSkipped ==
    (/\ pc = "dat_returned"
     /\ \E k \in 1..Len(DataLines(rev, dat_files[1])) :
            Unparseable(rev, DataLines(rev, dat_files[1])[k], prc_col)
     /\ \E k \in 1..Len(DataLines(rev, dat_files[1])) :
            WellFormed(rev, DataLines(rev, dat_files[1])[k]))
        => /\ ret.exc = "none"
           /\ ret = read_dat(rev, WithoutUnparseable(rev, dat_files[1], prc_col), prc_col)

Canonical(f) ==
    /\ Len(f.cols) = 3
    /\ {f.cols[i] : i \in 1..Len(f.cols)} = {c_ticker, c_date, c_price}
    /\ \A r \in 1..Len(f.rows) :
           /\ IsStr(Cell(f, r, c_ticker))
           /\ IsTs(Cell(f, r, c_date))
           /\ IsFloat(Cell(f, r, c_price))

\* C6: every record read_dat or read_csv returns has exactly the fields ticker,
\* date and price, the date a parsed calendar date and the price a number.
C6_CanonicalSchema ==
    (pc \in {"dat_returned", "csv_returned"} /\ ret.exc = "none" /\ Len(ret.val.rows) > 0)
        => Canonical(ret.val)

\* the month a monthly record is about, from its mdate text
MdateKey(mdate) == DigitsVal(SubSeq(mdate, 1, 4)) * 12 + DigitsVal(SubSeq(mdate, 6, 7)) - 1
FirstMonth(g) == MinMonth(GroupRows(df, g))

\* C7: no monthly record is about the month of its ticker's earliest daily
\* observation: every record of a ticker is about a strictly later month.
\* A record belongs to the ticker whose group emitted it (origin), as the
\* panel spells it; tickers that differ only in case are the subject of C10.
C7_FirstMonthExcluded ==
    \A i \in 1..Len(monthly_stats) :
        /\ monthly_stats[i].mdate # Strftime(FirstMonth(origin[i]))
        /\ MdateKey(monthly_stats[i].mdate) > FirstMonth(origin[i])
        /\ monthly_stats[i].ticker = Upper(origin[i])
C7_Witness ==
    /\ pc = "done"
    /\ \E i \in 1..Len(monthly_stats) :
           MdateKey(monthly_stats[i].mdate) = FirstMonth(origin[i]) + 1

\* the daily returns of ticker g that fall in month k: one for every row of the
\* ticker after its first
ReturnsIn(g, k) ==
    Cardinality({n \in 2..Len(GroupRows(df, g)) : MonthKey(GroupRows(df, g)[n].at) = k})

\* C8: a monthly record for a month in which fewer than two daily returns of
\* its ticker fall has a missing mvol, never 0.0 nor any other number.  The
\* returns are counted as the code takes them, one per row of the group after
\* its first; a month later than the first holds no fewer date-consecutive
\* returns, so the statement covers that count as well.
C8_UndefinedVolIsMissing ==
    \A i \in 1..Len(monthly_stats) :
        ReturnsIn(origin[i], MdateKey(monthly_stats[i].mdate)) < 2
            => IsNaN(monthly_stats[i].mvol)
C8_Witness ==
    /\ pc = "done"
    /\ \E i \in 1..Len(monthly_stats) :
           /\ ReturnsIn(origin[i], MdateKey(monthly_stats[i].mdate)) = 1
           /\ IsNaN(monthly_stats[i].mvol)
    /\ \E i \in 1..Len(monthly_stats) :
           /\ ReturnsIn(origin[i], MdateKey(monthly_stats[i].mdate)) >= 2
           /\ IsSqrt(monthly_stats[i].mvol)

\* the rows of a panel sorted by date (stable)
RowSeries(f) ==
    [r \in 1..Len(f.rows) |-> [at |-> CellToDatetime(Cell(f, r, c_date)).ts, val |-> f.rows[r]]]
SortedByDate(f) ==
    Frame(f.cols, [r \in 1..Len(f.rows) |-> StableSortByDate(RowSeries(f))[r].val])
DistinctTickerDates(f) ==
    \A i, j \in 1..Len(f.rows) :
        (Cell(f, i, c_ticker) = Cell(f, j, c_ticker) /\ Cell(f, i, c_date) = Cell(f, j, c_date))
            => i = j

\* C9: the monthly records do not depend on the row order of the panel: they
\* are those of the same rows sorted by date.
C9_RowOrderIrrelevant ==
    (Finished /\ DistinctTickerDates(df)) =>
        calc_monthly_ret_and_vol(SortedByDate(df), fill_pad) =
            (IF pc = "done" THEN Returned(monthly_stats) ELSE Raised(exc))

\* C10: the output holds at most one record for each (ticker as emitted, mdate).
C10_OneRecordPerTickerMonth ==
    \A i, j \in 1..Len(monthly_stats) :
        (/\ monthly_stats[i].ticker = monthly_stats[j].ticker
         /\ monthly_stats[i].mdate = monthly_stats[j].mdate)
            => i = j

\* the loop of the actions computes calc_monthly_ret_and_vol
LoopIsFunction ==
    Finished => calc_monthly_ret_and_vol(df, fill_pad) =
                    (IF pc = "done" THEN Returned(monthly_stats) ELSE Raised(exc))

====
